---- MODULE Spec2Model ----
(***************************************************************************)
(* Question-session state machine of the civics flashcards app             *)
(* (src/js/scripts.js, src/js/sheets.js, src/config/config.js).            *)
(*                                                                         *)
(* Every event handler of the page is one action.  The handlers are        *)
(* written as operators over a record of the module-level variables of     *)
(* scripts.js, so that a handler that calls another handler is the         *)
(* composition of the two operators.  Handlers that draw random numbers    *)
(* (shuffleArray, the random pick of nextQuestion) return the set of all   *)
(* results the draw can produce.                                           *)
(*                                                                         *)
(* Encoding.  Array indices are 0-based as in the source; a JavaScript     *)
(* array a is the sequence with a[i] stored at position i+1.  The question *)
(* and answer texts take no part in any decision except "is the question   *)
(* text empty" in transformSheetsData, so a record keeps only the fields   *)
(* the handlers read.  The `bookmark` field is a tag: "true" / "false"     *)
(* for the booleans transformSheetsData produces, and the string "No" the  *)
(* built-in list carries (a non-empty string, truthy in `if(q.bookmark)`). *)
(***************************************************************************)
EXTENDS Integers, Sequences, FiniteSets, TLC

(***************************************************************************)
(* Bounds of the model                                                     *)
(***************************************************************************)
\* most user events (clicks, key presses, selections) of one page session
MaxEvents == 5
\* longest question list drawn for applyFilters as a function of its inputs
MaxLen == 2
\* longest list drawn for shuffleUnasked as a function of its inputs
MaxShuffle == 3
\* most texts speakText starts to speak in one run of the speech model
MaxSpeak == 2
\* user events left to the session in the speech model
MaxNav == 2

(***************************************************************************)
(* Sequence helpers (JavaScript array semantics)                           *)
(***************************************************************************)
Last(s) == s[Len(s)]
Front(s) == SubSeq(s, 1, Len(s) - 1)
Range(s) == {s[k] : k \in 1..Len(s)}
\* a[i] is defined
Defined(a, i) == i \in 0..(Len(a) - 1)
\* Array.prototype.includes
Includes(a, x) == \E k \in 1..Len(a) : a[k] = x
\* Array.prototype.findIndex(q => q.id === id): first match, -1 when none
FindIndex(a, id) ==
  IF \E k \in 1..Len(a) : a[k].id = id
    THEN (CHOOSE k \in 1..Len(a) :
            a[k].id = id /\ \A j \in 1..(k - 1) : a[j].id # id) - 1
    ELSE 0 - 1
\* the value the model uses for NaN (x % 0); no array has this index
NaN == 0 - 2
\* i + 1 and a % n on JavaScript numbers
JsInc(i) == IF i = NaN THEN NaN ELSE i + 1
JsMod(a, n) == IF n = 0 \/ a = NaN THEN NaN ELSE a % n
\* truthiness of the `bookmark` tag
Truthy(v) == v \notin {"false", ""}

(***************************************************************************)
(* Data: question records, the built-in list, the sheets                   *)
(***************************************************************************)
Rec(id, cat, sub, ast, civ, bm) ==
  [id |-> id, category |-> cat, subCategory |-> sub,
   questionWithAsterisk |-> ast, civicsTestUpdates |-> civ, bookmark |-> bm]

\* the built-in list, cut to two of its records (ids 1 and 6)
MOCK_QUESTIONS ==
  << Rec(1, "Government", "Principles", "No", "No", "No"),
     Rec(6, "Government", "Principles", "Yes", "No", "No") >>

\* a data/questions.json that holds an array
LOCAL_QUESTIONS == << Rec(1, "History", "Colonial", "No", "Yes", "false") >>

\* the tabs of the spreadsheet, in the order the Sheets API lists them
SheetNames == << "2008", "2020" >>

\* the `values` of each tab: rows of cells
\* <<category, subCategory, question, answer, asterisk, updates, bookmark, asked>>
SheetValues(name) ==
  IF name = "2008" THEN
    << << "Category", "Sub", "Question", "Answer", "Star", "Updates", "Bookmark", "Asked" >>,
       << "Government", "Principles", "q1", "a1", "Yes", "No", "", "" >>,
       << "Government", "System", "q2", "a2", "No", "Yes", "", "" >>,
       << "History", "Colonial", "q3", "a3", "Yes", "Yes", "TRUE", "" >> >>
  ELSE
    << << "Category", "Sub", "Question", "Answer", "Star", "Updates", "Bookmark", "Asked" >>,
       << "Government", "Principles", "", "a1", "Yes", "No", "", "" >> >>

\* String(x).toLowerCase() on the cell values the sheets hold
ToLowerCase(c) == IF c = "TRUE" THEN "true" ELSE c

transformRow(row, index) ==
  [id |-> index + 1,
   category |-> row[1],
   subCategory |-> row[2],
   questionWithAsterisk |-> IF row[5] # "" THEN row[5] ELSE row[3],
   civicsTestUpdates |-> row[6],
   bookmark |-> IF ToLowerCase(row[7]) = "true" \/ row[7] = "1" THEN "true" ELSE "false",
   question |-> row[3]]

StripQuestion(r) == Rec(r.id, r.category, r.subCategory, r.questionWithAsterisk,
                        r.civicsTestUpdates, r.bookmark)

transformSheetsData(rows) ==
  IF Len(rows) < 1 THEN << >>
  ELSE
    LET hasHeader == Len(rows) > 1
        dataRows == IF hasHeader THEN SubSeq(rows, 2, Len(rows)) ELSE rows
        mapped == [k \in 1..Len(dataRows) |-> transformRow(dataRows[k], k - 1)]
        NonEmpty(r) == r.question # ""
        kept == SelectSeq(mapped, NonEmpty)
    IN [k \in 1..Len(kept) |-> StripQuestion(kept[k])]

(***************************************************************************)
(* Program state                                                           *)
(***************************************************************************)
VARIABLES
  questions,            \* scripts.js:17
  filteredQuestions,    \* scripts.js:18
  currentIndex,         \* scripts.js:19
  historyBack,          \* scripts.js:20
  historyForward,       \* scripts.js:21
  showAnswerFlag,       \* scripts.js:22
  answeredQuestions,    \* scripts.js:23
  bookmarkedQuestions,  \* scripts.js:24
  filters,              \* scripts.js:29
  storage,              \* localStorage["bookmarks"], the ids it lists
  catOptions,           \* options of #category-filter besides "All"
  subOptions,           \* options of #subcategory-filter besides "All"
  sheetName,            \* CONFIG.SHEET_NAME
  sheetOptions,         \* option values of #sheet-selector
  sheetSelected,        \* value of #sheet-selector
  pending,              \* sheet loads awaiting their fetch
  phase,                \* "boot" until the DOMContentLoaded handler has run
  events,               \* user events handled so far
  streak,               \* nextQuestion calls in a row since a fresh view
  lastStep,             \* what the last step did: an import (rejected, merged), a replay,
                        \* a prevQuestion that found historyBack empty, a reset that had
                        \* something to reset, a bookmark toggle that changed the view,
                        \* or other
  isSpeaking,           \* scripts.js:27
  utterances,           \* the queue of window.speechSynthesis, the head being spoken
  interrupted,          \* utterances a cancel() took from the queue, their last event due
  sequences,            \* one entry per running speakText call: its chunks and its idx
  handed                \* the chunks passed to speechSynthesis.speak so far, in order

vars == << questions, filteredQuestions, currentIndex, historyBack, historyForward,
           showAnswerFlag, answeredQuestions, bookmarkedQuestions, filters, storage,
           catOptions, subOptions, sheetName, sheetOptions, sheetSelected, pending,
           phase, events, streak, lastStep,
           isSpeaking, utterances, interrupted, sequences, handed >>

speechVars == << isSpeaking, utterances, interrupted, sequences, handed >>

\* scripts.js:27 and a speech engine that has been given nothing to say
SpeechIdle ==
  /\ isSpeaking = FALSE
  /\ utterances = << >>
  /\ interrupted = {}
  /\ sequences = << >>
  /\ handed = << >>

\* the module-level variables of the page as one record
St ==
  [questions |-> questions, filteredQuestions |-> filteredQuestions,
   currentIndex |-> currentIndex, historyBack |-> historyBack,
   historyForward |-> historyForward, showAnswerFlag |-> showAnswerFlag,
   answeredQuestions |-> answeredQuestions,
   bookmarkedQuestions |-> bookmarkedQuestions, filters |-> filters,
   storage |-> storage, catOptions |-> catOptions, subOptions |-> subOptions,
   sheetName |-> sheetName]

SetState(s) ==
  /\ questions' = s.questions
  /\ filteredQuestions' = s.filteredQuestions
  /\ currentIndex' = s.currentIndex
  /\ historyBack' = s.historyBack
  /\ historyForward' = s.historyForward
  /\ showAnswerFlag' = s.showAnswerFlag
  /\ answeredQuestions' = s.answeredQuestions
  /\ bookmarkedQuestions' = s.bookmarkedQuestions
  /\ filters' = s.filters
  /\ storage' = s.storage
  /\ catOptions' = s.catOptions
  /\ subOptions' = s.subOptions
  /\ sheetName' = s.sheetName

DefaultFilters ==
  [category |-> "All", subCategory |-> "All", bookmarked |-> "All",
   questionWithAsterisk |-> "All", civicsTestUpdates |-> "All",
   shuffleUnasked |-> FALSE]

(***************************************************************************)
(* Shuffle                                                                 *)
(***************************************************************************)
Swap(a, i, j) == [a EXCEPT ![i + 1] = a[j + 1], ![j + 1] = a[i + 1]]

\* the loop of shuffleArray from index i down to 1; j is Math.floor(random*(i+1))
RECURSIVE shuffleLoop(_, _)
shuffleLoop(a, i) ==
  IF i <= 0 THEN {a}
  ELSE UNION { shuffleLoop(Swap(a, i, j), i - 1) : j \in 0..i }

shuffleArray(arr) == shuffleLoop(arr, Len(arr) - 1)

\* shuffleUnasked that shuffles the whole list
shuffleUnaskedAll(s, list) == shuffleArray(list)

shuffleUnasked(s, list) ==
  LET IsUnasked(q) == q.id \notin s.answeredQuestions
      IsAsked(q) == q.id \in s.answeredQuestions
      unasked == SelectSeq(list, IsUnasked)
      asked == SelectSeq(list, IsAsked)
  IN { u \o asked : u \in shuffleArray(unasked) }

(***************************************************************************)
(* History, filters, display                                               *)
(***************************************************************************)
initHistory(s) ==
  [s EXCEPT !.historyBack = << s.currentIndex >>, !.historyForward = << >>]

\* filterCallback without the subCategory test
filterCallbackNoSub(s, q) ==
  IF s.filters.category # "All" /\ q.category # s.filters.category THEN FALSE
  ELSE IF s.filters.bookmarked = "Bookmarked" /\ q.id \notin s.bookmarkedQuestions THEN FALSE
  ELSE IF s.filters.questionWithAsterisk = "Yes" /\ q.questionWithAsterisk # "Yes" THEN FALSE
  ELSE IF s.filters.civicsTestUpdates = "Yes" /\ q.civicsTestUpdates # "Yes" THEN FALSE
  ELSE TRUE

\* the callback of questions.filter in applyFilters
filterCallback(s, q) ==
  IF s.filters.category # "All" /\ q.category # s.filters.category THEN FALSE
  ELSE IF s.filters.subCategory # "All" /\ q.subCategory # s.filters.subCategory THEN FALSE
  ELSE IF s.filters.bookmarked = "Bookmarked" /\ q.id \notin s.bookmarkedQuestions THEN FALSE
  ELSE IF s.filters.questionWithAsterisk = "Yes" /\ q.questionWithAsterisk # "Yes" THEN FALSE
  ELSE IF s.filters.civicsTestUpdates = "Yes" /\ q.civicsTestUpdates # "Yes" THEN FALSE
  ELSE TRUE

\* keptIndex without the reset to 0
keptIndexStale(list, index) == index

\* the index applyFilters leaves in currentIndex for the new list
keptIndex(list, index) ==
  IF Len(list) > 0
    THEN IF ~Defined(list, index) \/ ~Includes(list, list[index + 1])
           THEN 0
           ELSE index
    ELSE 0

\* applyFilters without the call of initHistory
applyFiltersKeepsHistory(s) ==
  LET Keep(q) == filterCallback(s, q)
      filtered == SelectSeq(s.questions, Keep)
      lists == IF s.filters.shuffleUnasked THEN shuffleUnasked(s, filtered)
               ELSE {filtered}
  IN { [s EXCEPT !.filteredQuestions = list,
                 !.currentIndex = keptIndex(list, s.currentIndex),
                 !.showAnswerFlag = FALSE] : list \in lists }

applyFilters(s) ==
  LET Keep(q) == filterCallback(s, q)
      filtered == SelectSeq(s.questions, Keep)
      lists == IF s.filters.shuffleUnasked THEN shuffleUnasked(s, filtered)
               ELSE {filtered}
  IN { initHistory([s EXCEPT !.filteredQuestions = list,
                             !.currentIndex = keptIndex(list, s.currentIndex),
                             !.showAnswerFlag = FALSE]) : list \in lists }

(***************************************************************************)
(* Answer and navigation                                                   *)
(***************************************************************************)
\* markAnswered that records nothing
markAnsweredNothing(s, index) == s

markAnswered(s, index) ==
  IF Defined(s.filteredQuestions, index)
    THEN [s EXCEPT !.answeredQuestions = @ \cup {s.filteredQuestions[index + 1].id}]
    ELSE s

toggleAnswer(s) ==
  IF Len(s.filteredQuestions) = 0 THEN s
  ELSE LET t == [s EXCEPT !.showAnswerFlag = ~s.showAnswerFlag]
       IN IF t.showAnswerFlag THEN markAnswered(t, t.currentIndex) ELSE t

\* advanceTargets without the wrap at the end of the list
advanceTargetsNoWrap(s) == { JsInc(s.currentIndex) }

\* advanceTargets whose random pick is among all questions of the view
advanceTargetsAnyIndex(s) ==
  IF s.filters.shuffleUnasked
    THEN 0..(Len(s.filteredQuestions) - 1)
    ELSE { JsMod(JsInc(s.currentIndex), Len(s.filteredQuestions)) }

\* the indices the "normal forward navigation" branch can move to
advanceTargets(s) ==
  IF s.filters.shuffleUnasked
    THEN LET IsUnasked(q) == q.id \notin s.answeredQuestions
             unasked == SelectSeq(s.filteredQuestions, IsUnasked)
         IN IF Len(unasked) = 0
              THEN { JsMod(JsInc(s.currentIndex), Len(s.filteredQuestions)) }
              ELSE { FindIndex(s.filteredQuestions, unasked[k].id) : k \in 1..Len(unasked) }
    ELSE { JsMod(JsInc(s.currentIndex), Len(s.filteredQuestions)) }

\* nextQuestion whose forward branches do not push currentIndex on historyBack
nextQuestionNoPush(s) ==
  IF ~s.showAnswerFlag THEN { toggleAnswer(s) }
  ELSE IF Len(s.historyForward) > 0
    THEN { [s EXCEPT !.currentIndex = Last(s.historyForward),
                     !.historyForward = Front(@),
                     !.showAnswerFlag = FALSE] }
    ELSE { [s EXCEPT !.currentIndex = target,
                     !.historyForward = << >>,
                     !.showAnswerFlag = FALSE] : target \in advanceTargets(s) }

\* nextQuestion whose replay reads the top of historyForward and leaves it there
nextQuestionReplayKeeps(s) ==
  IF ~s.showAnswerFlag THEN { toggleAnswer(s) }
  ELSE IF Len(s.historyForward) > 0
    THEN { [s EXCEPT !.historyBack = Append(@, s.currentIndex),
                     !.currentIndex = Last(s.historyForward),
                     !.showAnswerFlag = FALSE] }
    ELSE { [s EXCEPT !.historyBack = Append(@, s.currentIndex),
                     !.currentIndex = target,
                     !.historyForward = << >>,
                     !.showAnswerFlag = FALSE] : target \in advanceTargets(s) }

\* nextQuestion whose replay empties historyForward
nextQuestionReplayClears(s) ==
  IF ~s.showAnswerFlag THEN { toggleAnswer(s) }
  ELSE IF Len(s.historyForward) > 0
    THEN { [s EXCEPT !.historyBack = Append(@, s.currentIndex),
                     !.currentIndex = Last(s.historyForward),
                     !.historyForward = << >>,
                     !.showAnswerFlag = FALSE] }
    ELSE { [s EXCEPT !.historyBack = Append(@, s.currentIndex),
                     !.currentIndex = target,
                     !.historyForward = << >>,
                     !.showAnswerFlag = FALSE] : target \in advanceTargets(s) }

nextQuestion(s) ==
  IF ~s.showAnswerFlag THEN { toggleAnswer(s) }
  ELSE IF Len(s.historyForward) > 0
    THEN { [s EXCEPT !.historyBack = Append(@, s.currentIndex),
                     !.currentIndex = Last(s.historyForward),
                     !.historyForward = Front(@),
                     !.showAnswerFlag = FALSE] }
    ELSE { [s EXCEPT !.historyBack = Append(@, s.currentIndex),
                     !.currentIndex = target,
                     !.historyForward = << >>,
                     !.showAnswerFlag = FALSE] : target \in advanceTargets(s) }

\* prevQuestion that leaves the answer as it is
prevQuestionKeepsAnswer(s) ==
  IF Len(s.historyBack) > 0
    THEN [s EXCEPT !.historyForward = Append(@, s.currentIndex),
                   !.currentIndex = Last(s.historyBack),
                   !.historyBack = Front(@)]
    ELSE s

\* prevQuestion that does not save currentIndex for the replay
prevQuestionNoForward(s) ==
  IF Len(s.historyBack) > 0
    THEN [s EXCEPT !.currentIndex = Last(s.historyBack),
                   !.historyBack = Front(@),
                   !.showAnswerFlag = FALSE]
    ELSE s

\* prevQuestion that hides the answer also when historyBack is empty
prevQuestionAlwaysHides(s) ==
  IF Len(s.historyBack) > 0
    THEN [s EXCEPT !.historyForward = Append(@, s.currentIndex),
                   !.currentIndex = Last(s.historyBack),
                   !.historyBack = Front(@),
                   !.showAnswerFlag = FALSE]
    ELSE [s EXCEPT !.showAnswerFlag = FALSE]

prevQuestion(s) ==
  IF Len(s.historyBack) > 0
    THEN [s EXCEPT !.historyForward = Append(@, s.currentIndex),
                   !.currentIndex = Last(s.historyBack),
                   !.historyBack = Front(@),
                   !.showAnswerFlag = FALSE]
    ELSE s

\* the condition of validateCurrentQuestion on the current question q
failsFilters(s, q) ==
  \/ s.filters.bookmarked = "Bookmarked" /\ q.id \notin s.bookmarkedQuestions
  \/ s.filters.category # "All" /\ q.category # s.filters.category
  \/ s.filters.subCategory # "All" /\ q.subCategory # s.filters.subCategory
  \/ s.filters.questionWithAsterisk = "Yes" /\ q.questionWithAsterisk # "Yes"
  \/ s.filters.civicsTestUpdates = "Yes" /\ q.civicsTestUpdates # "Yes"

\* validateCurrentQuestion that moves on whatever the current question is
validateCurrentQuestionAlways(s) ==
  IF Len(s.filteredQuestions) = 0 THEN {s}
  ELSE nextQuestion(s)

\* called with isBackward = false only (toggleBookmark)
validateCurrentQuestion(s) ==
  IF Len(s.filteredQuestions) = 0 THEN {s}
  ELSE IF Defined(s.filteredQuestions, s.currentIndex)
          /\ failsFilters(s, s.filteredQuestions[s.currentIndex + 1])
    THEN nextQuestion(s)
    ELSE {s}

(***************************************************************************)
(* Progress                                                                *)
(***************************************************************************)
\* Math.round(num / den) for num >= 0, den > 0: halves round up
MathRound(num, den) == (2 * num + den) \div (2 * den)

\* the numbers updateProgress writes to the progress bar and the statistics
updateProgress(s) ==
  LET total == Len(s.filteredQuestions)
      answered == Cardinality(s.answeredQuestions)
  IN [total |-> total,
      answered |-> answered,
      percent |-> IF total # 0 THEN MathRound(answered * 100, total) ELSE 0]

(***************************************************************************)
(* Bookmarks                                                               *)
(***************************************************************************)
saveBookmarks(s) == [s EXCEPT !.storage = s.bookmarkedQuestions]

loadBookmarksFromStorage(s) ==
  [s EXCEPT !.bookmarkedQuestions = @ \cup s.storage]

initializeBookmarks(s) ==
  loadBookmarksFromStorage(
    [s EXCEPT !.bookmarkedQuestions =
       {s.questions[k].id : k \in {j \in 1..Len(s.questions) : Truthy(s.questions[j].bookmark)}}])

\* s after f for every s in S
Bind(S, f(_)) == UNION { f(s) : s \in S }

\* toggleBookmark that never removes a bookmark
toggleBookmarkAddOnly(s) ==
  IF ~Defined(s.filteredQuestions, s.currentIndex) THEN {s}
  ELSE LET id == s.filteredQuestions[s.currentIndex + 1].id
           t == [s EXCEPT !.bookmarkedQuestions = @ \cup {id}]
       IN Bind(applyFilters(saveBookmarks(t)), validateCurrentQuestion)

toggleBookmark(s) ==
  IF ~Defined(s.filteredQuestions, s.currentIndex) THEN {s}
  ELSE LET id == s.filteredQuestions[s.currentIndex + 1].id
           t == [s EXCEPT !.bookmarkedQuestions =
                   IF id \in @ THEN @ \ {id} ELSE @ \cup {id}]
       IN Bind(applyFilters(saveBookmarks(t)), validateCurrentQuestion)

\* resetBookmarks that leaves the persisted list as it is
resetBookmarksNoSave(s) ==
  applyFilters([s EXCEPT !.bookmarkedQuestions = {}])

resetBookmarks(s) ==
  applyFilters(saveBookmarks([s EXCEPT !.bookmarkedQuestions = {}]))

\* the decimal digits of n >= 0, as JSON.stringify writes a number
RECURSIVE Digits(_)
Digits(n) == IF n < 10 THEN << n >> ELSE Append(Digits(n \div 10), n % 10)

\* the number JSON.parse reads from a run of digits
RECURSIVE NumberOf(_)
NumberOf(ds) ==
  IF Len(ds) = 0 THEN 0 ELSE 10 * NumberOf(Front(ds)) + Last(ds)

\* JSON.stringify of {set, bookmarks}: the set name between quotes, each id
\* as its digits
JSONstringify(data) ==
  [set |-> << "\"", data.set, "\"" >>,
   bookmarks |-> [k \in 1..Len(data.bookmarks) |-> Digits(data.bookmarks[k])]]

\* JSON.parse of a text JSONstringify wrote
JSONparse(text) ==
  [kind |-> "ok",
   set |-> text.set[2],
   bookmarks |-> [k \in 1..Len(text.bookmarks) |-> NumberOf(text.bookmarks[k])]]

\* the arrays [...set] can be: the members in their order of insertion,
\* which the model does not keep, so every order
RECURSIVE Spread(_)
Spread(set) ==
  IF set = {} THEN { << >> }
  ELSE UNION { { Append(a, x) : a \in Spread(set \ {x}) } : x \in set }

\* the texts exportBookmarks can put in the downloaded file
exportBookmarks(s) ==
  { JSONstringify([set |-> IF s.sheetName # "" THEN s.sheetName ELSE "unknown",
                   bookmarks |-> ids]) : ids \in Spread(s.bookmarkedQuestions) }

\* handleBookmarkImport that merges before it looks at the set name
handleBookmarkImportNoSetCheck(s, file) ==
  IF file.kind # "ok" THEN {s}
  ELSE applyFilters(saveBookmarks(
         [s EXCEPT !.bookmarkedQuestions = @ \cup Range(file.bookmarks)]))

\* handleBookmarkImport that replaces the bookmarks by the imported ids
handleBookmarkImportReplace(s, file) ==
  IF file.kind # "ok" THEN {s}
  ELSE LET currentSet == IF s.sheetName # "" THEN s.sheetName ELSE "unknown"
           importedSet == IF file.set # "" THEN file.set ELSE "unknown"
       IN IF importedSet # currentSet THEN {s}
          ELSE applyFilters(saveBookmarks(
                 [s EXCEPT !.bookmarkedQuestions = Range(file.bookmarks)]))

\* the parsed file of a bookmark import: kind "syntax" (JSON.parse throws),
\* "shape" (no array `bookmarks`), "ok" (set: the `set` member, "" when absent)
handleBookmarkImport(s, file) ==
  IF file.kind # "ok" THEN {s}
  ELSE LET currentSet == IF s.sheetName # "" THEN s.sheetName ELSE "unknown"
           importedSet == IF file.set # "" THEN file.set ELSE "unknown"
       IN IF importedSet # currentSet THEN {s}
          ELSE applyFilters(saveBookmarks(
                 [s EXCEPT !.bookmarkedQuestions = @ \cup Range(file.bookmarks)]))

(***************************************************************************)
(* Filter controls                                                         *)
(***************************************************************************)
\* [...new Set(list.map(pick).filter(Boolean))]
Categories(list) == {list[k].category : k \in 1..Len(list)} \ {""}
SubCategories(list) == {list[k].subCategory : k \in 1..Len(list)} \ {""}

updateSubCategories(s) ==
  LET InCategory(q) == q.category = s.filters.category
      filtered == IF s.filters.category = "All" THEN s.questions
                  ELSE SelectSeq(s.questions, InCategory)
  IN [s EXCEPT !.subOptions = SubCategories(filtered)]

populateCategoryFilter(s) ==
  updateSubCategories([s EXCEPT !.catOptions = Categories(s.questions)])

\* handleFilterChange without the reset of subCategory on a category change
handleFilterChangeKeepSub(s, target, value) ==
  LET read == [s EXCEPT !.filters[target] = value]
      t == IF target = "category" THEN updateSubCategories(read) ELSE read
  IN applyFilters(t)

\* the change event of select `target` after the user picked `value`; the
\* other four selects show the value last copied from or into `filters`
handleFilterChange(s, target, value) ==
  LET read == [s EXCEPT !.filters[target] = value]
      t == IF target = "category"
             THEN [updateSubCategories(read) EXCEPT !.filters.subCategory = "All"]
             ELSE read
  IN applyFilters(t)

\* the click handler of #shuffle-unasked-btn
shuffleClick(s) ==
  applyFilters([s EXCEPT !.filters.shuffleUnasked = ~s.filters.shuffleUnasked])

(***************************************************************************)
(* Resets                                                                  *)
(***************************************************************************)
resetFilters(s) ==
  applyFilters(populateCategoryFilter(
    [s EXCEPT !.filters.category = "All", !.filters.subCategory = "All",
              !.filters.bookmarked = "All", !.filters.questionWithAsterisk = "All",
              !.filters.civicsTestUpdates = "All"]))

\* resetProgress that leaves the answer as it is
resetProgressKeepsAnswer(s) ==
  LET t == [s EXCEPT !.answeredQuestions = {}, !.currentIndex = 0]
      lists == IF t.filters.shuffleUnasked THEN shuffleUnasked(t, t.filteredQuestions)
               ELSE {t.filteredQuestions}
  IN { initHistory([t EXCEPT !.filteredQuestions = list]) : list \in lists }

\* resetProgress that clears the bookmarks as well
resetProgressAlsoBookmarks(s) ==
  LET t == [s EXCEPT !.answeredQuestions = {}, !.bookmarkedQuestions = {},
                     !.currentIndex = 0, !.showAnswerFlag = FALSE]
      lists == IF t.filters.shuffleUnasked THEN shuffleUnasked(t, t.filteredQuestions)
               ELSE {t.filteredQuestions}
  IN { initHistory([t EXCEPT !.filteredQuestions = list]) : list \in lists }

resetProgress(s) ==
  LET t == [s EXCEPT !.answeredQuestions = {}, !.currentIndex = 0,
                     !.showAnswerFlag = FALSE]
      lists == IF t.filters.shuffleUnasked THEN shuffleUnasked(t, t.filteredQuestions)
               ELSE {t.filteredQuestions}
  IN { initHistory([t EXCEPT !.filteredQuestions = list]) : list \in lists }

(***************************************************************************)
(* Loading                                                                 *)
(***************************************************************************)
\* the value loadQuestionsFromSelectedSheet resolves to for sheet `name`;
\* fetchOk: the fetch answered 200 with the values of the tab
loadQuestionsFromSelectedSheet(name, fetchOk) ==
  IF name = "" THEN MOCK_QUESTIONS
  ELSE IF fetchOk THEN transformSheetsData(SheetValues(name))
  ELSE MOCK_QUESTIONS

\* the rest of the #sheet-selector change listener once the fetch resolved
sheetSelectorLoaded(s, loaded) ==
  LET s1 == initializeBookmarks([s EXCEPT !.questions = loaded])
      s2 == Bind(Bind(resetFilters(s1), resetBookmarks), resetProgress)
  IN Bind({populateCategoryFilter(u) : u \in s2}, applyFilters)

\* the rest of handleSheetChange once the fetch resolved
handleSheetChangeLoaded(s, loaded) ==
  applyFilters(initializeBookmarks([s EXCEPT !.questions = loaded]))

\* the try block of initSheetsAndData from line 97 on, questions being set
initSheetsAndDataTail(s) ==
  LET s1 == initializeBookmarks(saveBookmarks([s EXCEPT !.bookmarkedQuestions = {}]))
  IN Bind(Bind(Bind(applyFilters(s1), resetFilters), resetBookmarks), resetProgress)

\* initSheetsAndData up to the binding of the selector.
\*   name: CONFIG.SHEET_NAME after initSheetsDropdown
\*   fetchOk: outcome of the fetch of the sheet
\*   local: data/questions.json: "missing", "array", or "other" (JSON that is
\*          no array, on which questions.forEach throws a TypeError)
initSheetsAndData(s, name, fetchOk, local) ==
  LET loaded == loadQuestionsFromSelectedSheet(name, fetchOk)
      named == [s EXCEPT !.sheetName = name]
  IN IF Len(loaded) = 0 /\ local = "other"
       THEN \* lines 97-99 ran up to the forEach, then the catch block
            { [named EXCEPT !.bookmarkedQuestions = {}, !.storage = {},
                            !.questions = MOCK_QUESTIONS] }
       ELSE LET fromLocal == IF Len(loaded) = 0 /\ local = "array"
                               THEN LOCAL_QUESTIONS ELSE loaded
                final == IF Len(fromLocal) = 0 THEN MOCK_QUESTIONS ELSE fromLocal
            IN initSheetsAndDataTail([named EXCEPT !.questions = final])

\* the DOMContentLoaded listener of scripts.js
domContentLoaded(s, name, fetchOk, local) ==
  { loadBookmarksFromStorage(populateCategoryFilter(u)) :
      u \in initSheetsAndData(s, name, fetchOk, local) }

(***************************************************************************)
(* Inputs of the events                                                    *)
(***************************************************************************)
\* files a user can pick in #import-bookmarks-input, as JSON.parse reads them
ImportFiles ==
  { [kind |-> "syntax", set |-> "", bookmarks |-> << >>],
    [kind |-> "shape", set |-> "2008", bookmarks |-> << >>],
    [kind |-> "ok", set |-> "2008", bookmarks |-> << 2, 3 >>],
    [kind |-> "ok", set |-> "2020", bookmarks |-> << 2, 5 >>],
    [kind |-> "ok", set |-> "", bookmarks |-> << 1 >>] }

\* the files the user can pick now: those, and a file an export of the
\* current bookmarks has just written (the texts an export can write differ
\* in the order of the ids only, and the import adds the ids to a set)
FilesAt(s) ==
  ImportFiles \cup { JSONparse(CHOOSE text \in exportBookmarks(s) : TRUE) }

\* the import of `file` in state s ends in a toast of kind "error"
Rejected(s, file) ==
  \/ file.kind # "ok"
  \/ (IF file.set # "" THEN file.set ELSE "unknown")
       # (IF s.sheetName # "" THEN s.sheetName ELSE "unknown")

\* the option values of the five filter selects
FilterOptions(target) ==
  CASE target = "category" -> catOptions \cup {"All"}
    [] target = "subCategory" -> subOptions \cup {"All"}
    [] target = "bookmarked" -> {"All", "Bookmarked"}
    [] target = "questionWithAsterisk" -> {"All", "Yes"}
    [] target = "civicsTestUpdates" -> {"All", "Yes"}

FilterTargets ==
  {"category", "subCategory", "bookmarked", "questionWithAsterisk", "civicsTestUpdates"}

\* CONFIG.SHEET_NAME as deployed, and what localStorage holds from before
ConfiguredSheetNames == {"", "2008", "2020"}
StoredBookmarks == { {}, {2} }

(***************************************************************************)
(* Bookkeeping for runs of nextQuestion                                    *)
(***************************************************************************)
Off == 0 - 1

\* a view as initHistory leaves it at index 0, shuffle off
Fresh(s) ==
  /\ Len(s.filteredQuestions) >= 1
  /\ s.currentIndex = 0
  /\ s.historyBack = << 0 >>
  /\ s.historyForward = << >>
  /\ ~s.showAnswerFlag
  /\ ~s.filters.shuffleUnasked

StreakAfter(s) == IF Fresh(s) THEN 0 ELSE Off

\* the listener turned the page into s
Becomes(s) == SetState(s) /\ streak' = StreakAfter(s)

(***************************************************************************)
(* Initial state: the scripts are evaluated, no listener has run            *)
(***************************************************************************)
Init ==
  /\ questions = << >>
  /\ filteredQuestions = << >>
  /\ currentIndex = 0
  /\ historyBack = << >>
  /\ historyForward = << >>
  /\ showAnswerFlag = FALSE
  /\ answeredQuestions = {}
  /\ bookmarkedQuestions = {}
  /\ filters = DefaultFilters
  /\ storage \in StoredBookmarks
  /\ catOptions = {}
  /\ subOptions = {}
  /\ sheetName \in ConfiguredSheetNames
  /\ sheetOptions = {}
  /\ sheetSelected = ""
  /\ pending = << >>
  /\ phase = "boot"
  /\ events = 0
  /\ streak = Off
  /\ lastStep = "other"
  /\ SpeechIdle

(***************************************************************************)
(* Actions: one per listener                                               *)
(***************************************************************************)
\* a user event: the listeners are bound once DOMContentLoaded has run
Ready == phase = "ready" /\ events < MaxEvents /\ events' = events + 1
Same == UNCHANGED << sheetOptions, sheetSelected, pending, phase >> /\ UNCHANGED speechVars
Other == lastStep' = "other"

\* DOMContentLoaded.  sheetsOk: fetchSheetNames succeeded, so initSheetsDropdown
\* filled the selector and defaulted CONFIG.SHEET_NAME to the first tab
DomContentLoaded ==
  /\ phase = "boot"
  /\ \E sheetsOk \in BOOLEAN, fetchOk \in BOOLEAN, local \in {"missing", "array", "other"} :
       LET name == IF sheetName = "" /\ sheetsOk THEN SheetNames[1] ELSE sheetName
       IN /\ \E s \in domContentLoaded(St, name, fetchOk, local) : Becomes(s)
          /\ sheetOptions' = IF sheetsOk THEN Range(SheetNames) ELSE {""}
          /\ sheetSelected' = IF sheetsOk THEN SheetNames[1] ELSE ""
  /\ phase' = "ready"
  /\ lastStep' = "other"
  /\ UNCHANGED << pending, events >>
  /\ UNCHANGED speechVars

NextQuestion ==
  /\ Ready
  /\ \E s \in nextQuestion(St) : SetState(s)
  /\ streak' = IF streak # Off /\ streak < 2 * Len(filteredQuestions)
                 THEN streak + 1 ELSE Off
  /\ lastStep' = IF showAnswerFlag /\ Len(historyForward) > 0 THEN "replay" ELSE "other"
  /\ Same

PrevQuestion ==
  /\ Ready
  /\ Becomes(prevQuestion(St))
  /\ lastStep' = IF Len(historyBack) = 0 THEN "backNoop" ELSE "other"
  /\ Same

ToggleAnswer == Ready /\ Becomes(toggleAnswer(St)) /\ Same /\ Other

ToggleBookmark ==
  /\ Ready
  /\ \E s \in toggleBookmark(St) : Becomes(s)
  /\ lastStep' = IF filteredQuestions' # filteredQuestions THEN "toggleBookmark" ELSE "other"
  /\ Same

\* change event of #import-bookmarks-input, and the onload of its FileReader
BookmarkImport ==
  /\ Ready
  /\ \E file \in FilesAt(St) :
       /\ \E s \in handleBookmarkImport(St, file) : Becomes(s)
       /\ lastStep' = IF Rejected(St, file) THEN "importRejected" ELSE "importMerged"
  /\ Same

\* click on #export-bookmarks-btn: the file goes to the user's downloads
ExportBookmarks ==
  /\ Ready
  /\ exportBookmarks(St) # {}
  /\ UNCHANGED << questions, filteredQuestions, currentIndex, historyBack,
                  historyForward, showAnswerFlag, answeredQuestions,
                  bookmarkedQuestions, filters, storage, catOptions, subOptions,
                  sheetName, streak >>
  /\ Same
  /\ Other

ResetBookmarks ==
  /\ Ready
  /\ \E s \in resetBookmarks(St) : Becomes(s)
  /\ lastStep' = IF bookmarkedQuestions # {} THEN "resetBookmarks" ELSE "other"
  /\ Same

FilterChange ==
  /\ Ready
  /\ \E target \in FilterTargets : \E value \in FilterOptions(target) \ {filters[target]} :
       \E s \in handleFilterChange(St, target, value) : Becomes(s)
  /\ Same
  /\ Other

ShuffleClick == Ready /\ (\E s \in shuffleClick(St) : Becomes(s)) /\ Same /\ Other

ResetFilters ==
  /\ Ready
  /\ \E s \in resetFilters(St) : Becomes(s)
  /\ lastStep' = IF filters.category # "All" THEN "resetFilters" ELSE "other"
  /\ Same

ResetProgress ==
  /\ Ready
  /\ \E s \in resetProgress(St) : Becomes(s)
  /\ lastStep' = IF answeredQuestions # {} THEN "resetProgress" ELSE "other"
  /\ Same

\* change event of #sheet-selector, listener of scripts.js:115, up to its await
SheetSelectorChange ==
  /\ Ready
  /\ \E value \in sheetOptions \ {sheetSelected} :
       /\ sheetSelected' = value
       /\ Becomes([St EXCEPT !.sheetName = value])
       /\ pending' = Append(pending, [handler |-> "selector", sheet |-> value])
  /\ lastStep' = "other"
  /\ UNCHANGED << sheetOptions, phase >>
  /\ UNCHANGED speechVars

\* change event of #sheet-selector, handleSheetChange of sheets.js, up to its await
HandleSheetChange ==
  /\ Ready
  /\ \E value \in sheetOptions \ {sheetSelected} :
       /\ sheetSelected' = value
       /\ IF value = ""
            THEN UNCHANGED << questions, filteredQuestions, currentIndex, historyBack,
                              historyForward, showAnswerFlag, answeredQuestions,
                              bookmarkedQuestions, filters, storage, catOptions,
                              subOptions, sheetName, streak, pending >>
            ELSE /\ Becomes([St EXCEPT !.sheetName = value])
                 /\ pending' = Append(pending, [handler |-> "handleSheetChange",
                                                sheet |-> value])
  /\ lastStep' = "other"
  /\ UNCHANGED << sheetOptions, phase >>
  /\ UNCHANGED speechVars

\* a fetch in flight resolves (in any order) and its listener runs to the end
FetchResolved ==
  /\ phase = "ready"
  /\ \E k \in 1..Len(pending) : \E fetchOk \in BOOLEAN :
       LET load == pending[k]
           loaded == loadQuestionsFromSelectedSheet(load.sheet, fetchOk)
           after == IF load.handler = "selector"
                      THEN sheetSelectorLoaded(St, loaded)
                      ELSE handleSheetChangeLoaded(St, loaded)
       IN /\ \E s \in after : Becomes(s)
          /\ pending' = SubSeq(pending, 1, k - 1) \o SubSeq(pending, k + 1, Len(pending))
  /\ lastStep' = "other"
  /\ UNCHANGED << sheetOptions, sheetSelected, phase, events >>
  /\ UNCHANGED speechVars

Next ==
  \/ DomContentLoaded
  \/ NextQuestion
  \/ PrevQuestion
  \/ ToggleAnswer
  \/ ToggleBookmark
  \/ BookmarkImport
  \/ ExportBookmarks
  \/ ResetBookmarks
  \/ FilterChange
  \/ ShuffleClick
  \/ ResetFilters
  \/ ResetProgress
  \/ SheetSelectorChange
  \/ HandleSheetChange
  \/ FetchResolved

Spec == Init /\ [][Next]_vars

(***************************************************************************)
(* applyFilters as a function of its inputs: the question list, the filter *)
(* configuration, the bookmarks and the answered ids are drawn, and the    *)
(* one action applies it.                                                  *)
(***************************************************************************)
\* the records lists are drawn from: those of tab "2008"
Universe == Range(transformSheetsData(SheetValues("2008")))

\* lists of at most n records of Universe, no record twice
RECURSIVE ListsUpTo(_)
ListsUpTo(n) ==
  IF n = 0 THEN { << >> }
  ELSE LET shorter == ListsUpTo(n - 1)
       IN shorter \cup { Append(l, q) : l \in shorter, q \in Universe } 

DistinctLists(n) == { l \in ListsUpTo(n) : Cardinality(Range(l)) = Len(l) }

FilterConfigurations ==
  [category : {"All", "Government", "History"},
   subCategory : {"All", "Principles", "Colonial"},
   bookmarked : {"All", "Bookmarked"},
   questionWithAsterisk : {"All", "Yes"},
   civicsTestUpdates : {"All", "Yes"},
   shuffleUnasked : BOOLEAN]

InitFilter ==
  /\ questions \in DistinctLists(MaxLen)
  /\ filters \in FilterConfigurations
  /\ bookmarkedQuestions \in SUBSET {1, 2, 3}
  /\ answeredQuestions \in { {}, {2} }
  /\ filteredQuestions = << >>
  /\ currentIndex = 0
  /\ historyBack = << >>
  /\ historyForward = << >>
  /\ showAnswerFlag = FALSE
  /\ storage = {}
  /\ catOptions = {}
  /\ subOptions = {}
  /\ sheetName = ""
  /\ sheetOptions = {}
  /\ sheetSelected = ""
  /\ pending = << >>
  /\ phase = "input"
  /\ events = 0
  /\ streak = Off
  /\ lastStep = "other"
  /\ SpeechIdle

ApplyFilters ==
  /\ phase = "input"
  /\ \E s \in applyFilters(St) : SetState(s)
  /\ phase' = "applied"
  /\ UNCHANGED << sheetOptions, sheetSelected, pending, events, streak, lastStep >>
  /\ UNCHANGED speechVars

NextFilter == ApplyFilters

SpecFilter == InitFilter /\ [][NextFilter]_vars

(***************************************************************************)
(* shuffleUnasked as a function of its inputs: the list and the answered   *)
(* ids are drawn, the one action applies it to the list and leaves the     *)
(* result in filteredQuestions.                                            *)
(***************************************************************************)
InitShuffle ==
  /\ questions \in DistinctLists(MaxShuffle)
  /\ answeredQuestions \in SUBSET {1, 2, 3}
  /\ filters = DefaultFilters
  /\ bookmarkedQuestions = {}
  /\ filteredQuestions = << >>
  /\ currentIndex = 0
  /\ historyBack = << >>
  /\ historyForward = << >>
  /\ showAnswerFlag = FALSE
  /\ storage = {}
  /\ catOptions = {}
  /\ subOptions = {}
  /\ sheetName = ""
  /\ sheetOptions = {}
  /\ sheetSelected = ""
  /\ pending = << >>
  /\ phase = "input"
  /\ events = 0
  /\ streak = Off
  /\ lastStep = "other"
  /\ SpeechIdle

ShuffleUnasked ==
  /\ phase = "input"
  /\ filteredQuestions' \in shuffleUnasked(St, questions)
  /\ phase' = "shuffled"
  /\ UNCHANGED << questions, currentIndex, historyBack, historyForward, showAnswerFlag,
                  answeredQuestions, bookmarkedQuestions, filters, storage, catOptions,
                  subOptions, sheetName, sheetOptions, sheetSelected, pending, events,
                  streak, lastStep >>
  /\ UNCHANGED speechVars

NextShuffle == ShuffleUnasked

SpecShuffle == InitShuffle /\ [][NextShuffle]_vars

(***************************************************************************)
(* Text to speech: speakText, its utterance callbacks, the Escape shortcut *)
(***************************************************************************)
\* a text by the lengths of its parts: HTML tags, a leading "N. ", the blank
\* space around the rest, and the rest
Text(html, lead, pad, body) == [html |-> html, lead |-> lead, pad |-> pad, body |-> body]

TextLength(text) == text.html + text.lead + text.pad + text.body

\* scripts.js:604: the tags, the leading number and the outer blanks go;
\* the result by its length
sanitizeTextForSpeech(text) == IF TextLength(text) = 0 THEN 0 ELSE text.body

CHUNK_SIZE == 200

\* scripts.js:668-673: the slices [from, to) of a plain text of length n
Chunks(n) ==
  [ k \in 1..((n + CHUNK_SIZE - 1) \div CHUNK_SIZE) |->
      [from |-> CHUNK_SIZE * (k - 1),
       to |-> IF CHUNK_SIZE * k < n THEN CHUNK_SIZE * k ELSE n] ]

\* what speakQuestion and speakAnswer can pass: "", "<br>", a numbered short
\* text, a tagged text of two full chunks, a text of three chunks
SpeechTexts ==
  { Text(0, 0, 0, 0), Text(4, 0, 0, 0), Text(0, 3, 1, 150),
    Text(7, 0, 0, 400), Text(0, 0, 2, 450) }

Sp ==
  [isSpeaking |-> isSpeaking, utterances |-> utterances, interrupted |-> interrupted,
   sequences |-> sequences, handed |-> handed]

SetSpeech(sp) ==
  /\ isSpeaking' = sp.isSpeaking
  /\ utterances' = sp.utterances
  /\ interrupted' = sp.interrupted
  /\ sequences' = sp.sequences
  /\ handed' = sp.handed

\* scripts.js:678-699, speakChunk of the speakText call number k
speakChunk(sp, k) ==
  LET seq == sp.sequences[k]
  IN IF seq.idx >= Len(seq.chunks)
       THEN [sp EXCEPT !.isSpeaking = FALSE]
       ELSE [sp EXCEPT !.utterances = Append(@, [seq |-> k, idx |-> seq.idx]),
                       !.handed = Append(@, [seq |-> k, chunk |-> seq.chunks[seq.idx + 1]])]

\* an onend that moves idx past the next chunk
onendSkips(sp, k) == speakChunk([sp EXCEPT !.sequences[k].idx = @ + 2], k)

\* scripts.js:688-691, utter.onend of an utterance of call k
onend(sp, k) == speakChunk([sp EXCEPT !.sequences[k].idx = @ + 1], k)

\* scripts.js:693-696, utter.onerror of an utterance of call k
onerror(sp, k) == [sp EXCEPT !.isSpeaking = FALSE, !.sequences[k].failed = TRUE]

\* speechSynthesis.cancel() then isSpeaking = false (scripts.js:661-665, 807-810):
\* the queue is emptied; the engine still owes each removed utterance its
\* last event
cancel(sp) ==
  [sp EXCEPT !.utterances = << >>,
             !.interrupted = @ \cup Range(sp.utterances),
             !.sequences = [k \in 1..Len(sp.sequences) |->
                              IF \E u \in Range(sp.utterances) : u.seq = k
                                THEN [sp.sequences[k] EXCEPT !.cancelled = TRUE]
                                ELSE sp.sequences[k]],
             !.isSpeaking = FALSE]

\* scripts.js:658-702
speakText(sp, text) ==
  IF TextLength(text) = 0 THEN sp
  ELSE IF sp.isSpeaking THEN cancel(sp)
  ELSE LET k == Len(sp.sequences) + 1
           started == [sp EXCEPT !.sequences =
                         Append(@, [chunks |-> Chunks(sanitizeTextForSpeech(text)),
                                    idx |-> 0, cancelled |-> FALSE, failed |-> FALSE]),
                                 !.isSpeaking = TRUE]
       IN speakChunk(started, k)

\* scripts.js:803-816, the part of the Escape shortcut that touches speech
escape(sp) == IF sp.isSpeaking THEN cancel(sp) ELSE sp

\* the session state the speech model runs beside: the built-in questions,
\* loaded with no sheet configured
Boot ==
  [questions |-> << >>, filteredQuestions |-> << >>, currentIndex |-> 0,
   historyBack |-> << >>, historyForward |-> << >>, showAnswerFlag |-> FALSE,
   answeredQuestions |-> {}, bookmarkedQuestions |-> {}, filters |-> DefaultFilters,
   storage |-> {}, catOptions |-> {}, subOptions |-> {}, sheetName |-> ""]

InitSpeech ==
  /\ \E s \in domContentLoaded(Boot, "", TRUE, "missing") :
       /\ questions = s.questions
       /\ filteredQuestions = s.filteredQuestions
       /\ currentIndex = s.currentIndex
       /\ historyBack = s.historyBack
       /\ historyForward = s.historyForward
       /\ showAnswerFlag = s.showAnswerFlag
       /\ answeredQuestions = s.answeredQuestions
       /\ bookmarkedQuestions = s.bookmarkedQuestions
       /\ filters = s.filters
       /\ storage = s.storage
       /\ catOptions = s.catOptions
       /\ subOptions = s.subOptions
       /\ sheetName = s.sheetName
       /\ streak = StreakAfter(s)
  /\ sheetOptions = {""}
  /\ sheetSelected = ""
  /\ pending = << >>
  /\ phase = "ready"
  /\ events = MaxEvents - MaxNav
  /\ lastStep = "other"
  /\ SpeechIdle

SessionSame ==
  UNCHANGED << questions, filteredQuestions, currentIndex, historyBack, historyForward,
               showAnswerFlag, answeredQuestions, bookmarkedQuestions, filters, storage,
               catOptions, subOptions, sheetName, sheetOptions, sheetSelected, pending,
               phase, events, streak, lastStep >>

\* click on a speak button: speakQuestion or speakAnswer (scripts.js:650-655)
SpeakText ==
  /\ phase = "ready"
  /\ \E text \in SpeechTexts :
       /\ (~isSpeaking /\ TextLength(text) > 0) => Len(sequences) < MaxSpeak
       /\ SetSpeech(speakText(Sp, text))
  /\ SessionSame

\* the same click while nothing is being spoken
SpeakStart == ~isSpeaking /\ SpeakText

\* the Escape key
Escape ==
  /\ phase = "ready"
  /\ SetSpeech(escape(Sp))
  /\ SessionSame

\* the engine finishes the utterance it is speaking and fires its end event
UtterEnd ==
  /\ Len(utterances) > 0
  /\ SetSpeech(onend([Sp EXCEPT !.utterances = Tail(@)], Head(utterances).seq))
  /\ SessionSame

\* the engine fails on the utterance it is speaking and fires its error event
UtterError ==
  /\ Len(utterances) > 0
  /\ SetSpeech(onerror([Sp EXCEPT !.utterances = Tail(@)], Head(utterances).seq))
  /\ SessionSame

\* what the engine does for an utterance a cancel() removed depends on the
\* browser: it fires end, it fires error, or it fires nothing
CancelledEnd ==
  /\ \E u \in interrupted :
       SetSpeech(onend([Sp EXCEPT !.interrupted = @ \ {u}], u.seq))
  /\ SessionSame

CancelledError ==
  /\ \E u \in interrupted :
       SetSpeech(onerror([Sp EXCEPT !.interrupted = @ \ {u}], u.seq))
  /\ SessionSame

CancelledSilent ==
  /\ \E u \in interrupted : interrupted' = interrupted \ {u}
  /\ UNCHANGED << isSpeaking, utterances, sequences, handed >>
  /\ SessionSame

NextSpeech ==
  \/ SpeakText
  \/ Escape
  \/ UtterEnd
  \/ UtterError
  \/ CancelledEnd
  \/ CancelledError
  \/ CancelledSilent
  \/ NextQuestion
  \/ PrevQuestion
  \/ FilterChange

SpecSpeech == InitSpeech /\ [][NextSpeech]_vars

\* the runs in which nothing is cancelled and the engine answers every
\* utterance with end or error
NextSpeak ==
  \/ SpeakStart
  \/ UtterEnd
  \/ UtterError
  \/ NextQuestion
  \/ PrevQuestion
  \/ FilterChange

SpecSpeak == InitSpeech /\ [][NextSpeak]_vars /\ WF_vars(UtterEnd \/ UtterError)


(***************************************************************************)
(* Claims                                                                  *)
(***************************************************************************)
Ids(list) == [k \in 1..Len(list) |-> list[k].id]
IdSet(list) == {list[k].id : k \in 1..Len(list)}

\* C1: whenever the filtered view is non-empty, currentIndex is one of its
\* indices: 0 <= currentIndex < filteredQuestions.length.
C1_IndexInRange ==
  Len(filteredQuestions) > 0 =>
    /\ 0 <= currentIndex
    /\ currentIndex < Len(filteredQuestions)

\* the view was narrowed to two of the three questions after two were answered
C1_Witness ==
  /\ Len(questions) = 3
  /\ Len(filteredQuestions) = 2
  /\ answeredQuestions = {1, 2}
  /\ currentIndex = 0
  /\ 3 \in IdSet(filteredQuestions)

\* C2: nextQuestion on a non-empty view whose answer is hidden reveals the
\* answer, adds the id of the current question to answeredQuestions and leaves
\* currentIndex, the view and both history stacks as they were; on the view
\* with ids 1,2,3 and nothing answered the first call gives index 0, answer
\* shown, answered {1}, and the second call gives index 1, answer hidden.
C2_RevealFrame ==
  /\ [][ (NextQuestion /\ Len(filteredQuestions) > 0 /\ ~showAnswerFlag) =>
           /\ showAnswerFlag'
           /\ answeredQuestions' =
                answeredQuestions \cup {filteredQuestions[currentIndex + 1].id}
           /\ UNCHANGED << currentIndex, filteredQuestions, historyBack, historyForward >>
       ]_vars
  /\ [][ (NextQuestion /\ Ids(filteredQuestions) = << 1, 2, 3 >> /\ streak = 0
            /\ answeredQuestions = {}) =>
           (currentIndex' = 0 /\ showAnswerFlag' /\ answeredQuestions' = {1}) ]_vars
  /\ [][ (NextQuestion /\ Ids(filteredQuestions) = << 1, 2, 3 >> /\ streak = 1
            /\ answeredQuestions = {1}) =>
           (currentIndex' = 1 /\ ~showAnswerFlag') ]_vars

\* the second call of the example has run
C2_Witness ==
  /\ Ids(filteredQuestions) = << 1, 2, 3 >>
  /\ streak = 2
  /\ answeredQuestions = {1}
  /\ currentIndex = 1
  /\ ~showAnswerFlag

\* C3: after k nextQuestion calls in a row on a fresh view of N >= 1 questions
\* with shuffle off (k <= 2N), the index is floor(k/2) mod N, the answer is
\* shown exactly after an odd number of calls, the questions at indices
\* 0..ceil(k/2)-1 have been revealed, and after 2N calls every id of the view
\* is in answeredQuestions.
C3_RoundRobin ==
  streak # Off =>
    LET N == Len(filteredQuestions) IN
    /\ streak <= 2 * N
    /\ currentIndex = (streak \div 2) % N
    /\ showAnswerFlag = (streak % 2 = 1)
    /\ \A j \in 0..(((streak + 1) \div 2) - 1) :
         filteredQuestions[j + 1].id \in answeredQuestions
    /\ streak = 2 * N => IdSet(filteredQuestions) \subseteq answeredQuestions

\* all 2N calls were made on a view of two questions
C3_Witness ==
  /\ Len(filteredQuestions) = 2
  /\ streak = 4
  /\ currentIndex = 0
  /\ historyBack = << 0, 0, 1 >>

\* C4: a step that changes currentIndex or the view, and every step of a
\* listener that moves or recomputes the view (advance, replay, a prevQuestion
\* that pops, filter change, shuffle, the resets, a bookmark toggle, a load),
\* ends with the answer hidden: a step that ends with the answer shown kept
\* currentIndex and the view and was none of these.  The answer goes from
\* hidden to shown only in toggleAnswer, called directly or by nextQuestion.
C4_HiddenAfterMove ==
  /\ [][ showAnswerFlag' =>
           /\ currentIndex' = currentIndex
           /\ filteredQuestions' = filteredQuestions
           /\ showAnswerFlag =>
                ~(\/ NextQuestion
                  \/ PrevQuestion /\ Len(historyBack) > 0
                  \/ FilterChange \/ ShuffleClick \/ ResetFilters \/ ResetProgress
                  \/ ResetBookmarks \/ FetchResolved
                  \/ ToggleBookmark /\ Len(filteredQuestions) > 0)
           /\ ~showAnswerFlag => (NextQuestion \/ ToggleAnswer) ]_vars

\* the user went back to a question whose answer had been revealed
C4_Witness ==
  /\ ~showAnswerFlag
  /\ Len(historyForward) > 0
  /\ Len(filteredQuestions) > 1
  /\ filteredQuestions[currentIndex + 1].id \in answeredQuestions

\* C5 as claimed: from any state with a non-empty view, nextQuestion followed
\* by prevQuestion gives the currentIndex of that state and a hidden answer,
\* whether nextQuestion revealed, replayed or advanced.
C5_Claimed ==
  [][ (NextQuestion /\ Len(filteredQuestions) > 0) =>
        /\ prevQuestion(St').currentIndex = currentIndex
        /\ ~prevQuestion(St').showAnswerFlag ]_vars

\* C5 as amended: from any state with a non-empty view whose answer is shown,
\* nextQuestion (a forward replay or a fresh advance) followed by prevQuestion
\* gives the currentIndex of that state and a hidden answer.
C5_BackUndoesMove ==
  [][ (NextQuestion /\ Len(filteredQuestions) > 0 /\ showAnswerFlag) =>
        /\ prevQuestion(St').currentIndex = currentIndex
        /\ ~prevQuestion(St').showAnswerFlag
        /\ prevQuestion(St').historyBack = historyBack ]_vars

\* prevQuestion has undone an advance from index 1 to index 2
C5_Witness ==
  /\ Len(filteredQuestions) = 3
  /\ currentIndex = 1
  /\ historyForward = << 2 >>
  /\ historyBack = << 0, 0 >>
  /\ ~showAnswerFlag

\* C6 as claimed: after a prevQuestion that went back from index i, one
\* nextQuestion call sets currentIndex to i again.
C6_Claimed ==
  [][ (PrevQuestion /\ Len(historyBack) > 0) =>
        \A n \in nextQuestion(St') : n.currentIndex = currentIndex ]_vars

\* C6 as amended: after a prevQuestion that went back from index i to index j
\* of a non-empty view, the first nextQuestion call reveals the answer at j and
\* the second one is the forward replay that sets currentIndex to i again,
\* with the answer hidden and the forward stack as before the back-step.
C6_ReplayRestores ==
  [][ (PrevQuestion /\ Len(historyBack) > 0 /\ Len(filteredQuestions) > 0) =>
        \A n \in nextQuestion(St') :
          /\ n.showAnswerFlag
          /\ n.currentIndex = currentIndex'
          /\ \A m \in nextQuestion(n) :
               /\ m.currentIndex = currentIndex
               /\ ~m.showAnswerFlag
               /\ m.historyForward = historyForward ]_vars

\* after a back-step from index 1 to index 0 the answer at 0 was revealed: the
\* next call is the replay
C6_Witness ==
  /\ showAnswerFlag
  /\ currentIndex = 0
  /\ historyForward = << 1 >>
  /\ Len(filteredQuestions) > 1

\* the records of `questions` that pass the filters now set
Matching ==
  { q \in Range(questions) :
      /\ filters.category = "All" \/ q.category = filters.category
      /\ filters.subCategory = "All" \/ q.subCategory = filters.subCategory
      /\ filters.bookmarked = "All" \/ q.id \in bookmarkedQuestions
      /\ filters.questionWithAsterisk = "All" \/ q.questionWithAsterisk = "Yes"
      /\ filters.civicsTestUpdates = "All" \/ q.civicsTestUpdates = "Yes" }

\* C7: once the page has loaded, after every listener the records of
\* filteredQuestions are exactly the records of questions that pass the
\* filters, also when initSheetsAndData took its catch branch.
C7_ViewMatchesFilters ==
  phase = "ready" => Range(filteredQuestions) = Matching

\* C8: the list applyFilters computes holds exactly the records of its input
\* that satisfy every active dimension (category, subCategory, bookmarked,
\* asterisk, update flag; "All" imposes nothing), each of them once.
C8_FilterExact ==
  phase = "applied" =>
    /\ Range(filteredQuestions) = Matching
    /\ Len(filteredQuestions) = Cardinality(Matching)

\* of two records one passed an active subCategory and bookmark filter
C8_Witness ==
  /\ phase = "applied"
  /\ Len(questions) = 2
  /\ Len(filteredQuestions) = 1
  /\ filters.subCategory # "All"
  /\ filters.bookmarked = "Bookmarked"
  /\ filters.category = "All"

\* C9: when a filter change or the shuffle toggle recomputes the view and the
\* question that was current is still in the new view, currentIndex is its
\* new position; otherwise currentIndex is 0.
C9_FollowsQuestion ==
  [][ ((FilterChange \/ ShuffleClick) /\ Len(filteredQuestions) > 0) =>
        LET id == filteredQuestions[currentIndex + 1].id IN
        IF id \in IdSet(filteredQuestions')
          THEN filteredQuestions'[currentIndex' + 1].id = id
          ELSE currentIndex' = 0 ]_vars

\* C10: a step that changes filters.category leaves filters.subCategory at
\* "All", whatever subCategory was selected before.
C10_SubCategoryReset ==
  [][ filters'.category # filters.category => filters'.subCategory = "All" ]_vars

\* category History is selected, and its only subCategory is offered
C10_Witness ==
  /\ filters.category = "History"
  /\ filters.subCategory = "All"
  /\ subOptions = {"Colonial"}
  /\ Len(filteredQuestions) = 1

\* C11: in every state filters.subCategory is "All" or the subCategory of a
\* record of `questions` whose category matches filters.category (any record
\* when the category is "All"), also after a load through the selector
\* listener or through handleSheetChange.
C11_SubCategoryPresent ==
  \/ filters.subCategory = "All"
  \/ \E q \in Range(questions) :
       /\ q.subCategory = filters.subCategory
       /\ filters.category = "All" \/ q.category = filters.category

\* the listener of this step ends in a call of updateProgress
UpdatesProgress ==
  \/ NextQuestion /\ Len(filteredQuestions) > 0
  \/ PrevQuestion /\ Len(historyBack) > 0
  \/ ToggleAnswer /\ Len(filteredQuestions) > 0 /\ ~showAnswerFlag

\* the records of the view whose id is in answeredQuestions
AnsweredInView(s) ==
  Cardinality({k \in 1..Len(s.filteredQuestions) :
                 s.filteredQuestions[k].id \in s.answeredQuestions})

\* C12: whenever updateProgress runs, the statistics it computes are
\* total = filteredQuestions.length, answered = the number of records of the
\* view whose id is in answeredQuestions, and percent =
\* round(answered / total * 100) when total > 0, else 0.
C12_ProgressOfView ==
  [][ UpdatesProgress =>
        LET total == Len(filteredQuestions')
            answered == AnsweredInView(St')
        IN updateProgress(St') =
             [total |-> total,
              answered |-> answered,
              percent |-> IF total > 0 THEN MathRound(answered * 100, total) ELSE 0]
    ]_vars

\* the active data-set name: CONFIG.SHEET_NAME, or "unknown" when unset
ActiveSet == IF sheetName # "" THEN sheetName ELSE "unknown"

\* s differs from the present state in nothing an import could touch
ImportFrame(s) ==
  /\ s.bookmarkedQuestions = bookmarkedQuestions
  /\ s.storage = storage
  /\ s.filteredQuestions = filteredQuestions
  /\ s.currentIndex = currentIndex
  /\ s.showAnswerFlag = showAnswerFlag
  /\ s.historyBack = historyBack
  /\ s.historyForward = historyForward

\* C13 as claimed: an import whose `set` member differs from the active
\* data-set name, or whose payload is no object with an array `bookmarks`,
\* changes neither the bookmarks, the persisted bookmarks, the view,
\* currentIndex, the reveal state nor the history stacks.
C13_Claimed ==
  phase = "ready" =>
    \A file \in ImportFiles :
      (file.kind # "ok" \/ file.set # ActiveSet) =>
        \A s \in handleBookmarkImport(St, file) : ImportFrame(s)

\* C13 as amended: the set name of the file being its `set` member, or
\* "unknown" when that member is absent or empty, an import whose set name
\* differs from the active data-set name, or whose payload is no object with
\* an array `bookmarks`, changes neither the bookmarks, the persisted
\* bookmarks, the view, currentIndex, the reveal state nor the history stacks.
C13_RejectedImportFrame ==
  phase = "ready" =>
    \A file \in ImportFiles :
      Rejected(St, file) =>
        \A s \in handleBookmarkImport(St, file) : ImportFrame(s)

\* a file was rejected while set "2020" was active, a bookmark was set and
\* an answer was shown
C13_Witness ==
  /\ lastStep = "importRejected"
  /\ sheetName = "2020"
  /\ bookmarkedQuestions # {}
  /\ showAnswerFlag

\* C14: an import whose set name matches the active data-set name sets the
\* bookmarks to the union of the previous bookmarks and the imported ids and
\* persists that set; importing the same file a second time changes the
\* bookmarks no further, and importing a file exportBookmarks has just
\* written leaves the bookmarks as they are.
C14_ImportMerges ==
  [](phase = "ready" =>
       /\ \A file \in ImportFiles :
            ~Rejected(St, file) =>
              \A s \in handleBookmarkImport(St, file) :
                /\ s.bookmarkedQuestions = bookmarkedQuestions \cup Range(file.bookmarks)
                /\ \A id \in bookmarkedQuestions : id \in s.bookmarkedQuestions
                /\ s.storage = s.bookmarkedQuestions
                /\ \A t \in handleBookmarkImport(s, file) :
                     t.bookmarkedQuestions = s.bookmarkedQuestions
       /\ \A text \in exportBookmarks(St) :
            /\ ~Rejected(St, JSONparse(text))
            /\ \A s \in handleBookmarkImport(St, JSONparse(text)) :
                 /\ s.bookmarkedQuestions = bookmarkedQuestions
                 /\ s.storage = bookmarkedQuestions)

\* the ids 2 and 5 of a file were merged into the bookmark of question 1
C14_Witness ==
  /\ lastStep = "importMerged"
  /\ bookmarkedQuestions = {1, 2, 5}
  /\ storage = {1, 2, 5}

\* s shows a question, and its id
HasCurrent(s) == Defined(s.filteredQuestions, s.currentIndex)
CurrentId(s) == s.filteredQuestions[s.currentIndex + 1].id

\* set with the membership of id flipped
Flip(set, id) == IF id \in set THEN set \ {id} ELSE set \cup {id}

\* C15: toggleBookmark on the question with a given id flips the membership
\* of that id in bookmarkedQuestions and of no other id; a second
\* toggleBookmark on the same id gives bookmarkedQuestions its value from
\* before the first.
C15_ToggleInvolution ==
  (phase = "ready" /\ HasCurrent(St)) =>
    \A s \in toggleBookmark(St) :
      /\ s.bookmarkedQuestions = Flip(bookmarkedQuestions, CurrentId(St))
      /\ (HasCurrent(s) /\ CurrentId(s) = CurrentId(St)) =>
           \A t \in toggleBookmark(s) : t.bookmarkedQuestions = bookmarkedQuestions

\* question 1 of set "2008" was bookmarked by a toggle and is still the
\* current question
C15_Witness ==
  /\ sheetName = "2008"
  /\ Ids(filteredQuestions) = << 1, 2, 3 >>
  /\ currentIndex = 0
  /\ bookmarkedQuestions = {1}
  /\ storage = {1}

\* C16: while filters.bookmarked is "All", toggleBookmark leaves the view
\* (its records and their order, also with shuffle on), currentIndex, the
\* reveal state and both history stacks as they were.
C16_ToggleKeepsView ==
  (phase = "ready" /\ HasCurrent(St) /\ filters.bookmarked = "All") =>
    \A s \in toggleBookmark(St) :
      /\ s.filteredQuestions = filteredQuestions
      /\ s.currentIndex = currentIndex
      /\ s.showAnswerFlag = showAnswerFlag
      /\ s.historyBack = historyBack
      /\ s.historyForward = historyForward

\* the records of list that are (not) answered, in the order of list
AnsweredOf(list) ==
  LET IsAsked(q) == q.id \in answeredQuestions IN SelectSeq(list, IsAsked)
UnansweredOf(list) ==
  LET IsUnasked(q) == q.id \notin answeredQuestions IN SelectSeq(list, IsUnasked)

\* C17: for every list and every set of answered ids, shuffleUnasked(list)
\* is a permutation of list; its suffix is the answered records of list in
\* their order in list, its prefix holds exactly the unanswered records; when
\* no record is unanswered the result is list itself.
C17_ShuffleShape ==
  phase = "shuffled" =>
    LET in == questions
        out == filteredQuestions
        asked == AnsweredOf(in)
        cut == Len(in) - Len(asked)
    IN /\ Len(out) = Len(in)
       /\ \A q \in Range(in) \cup Range(out) :
            Cardinality({k \in 1..Len(out) : out[k] = q})
              = Cardinality({k \in 1..Len(in) : in[k] = q})
       /\ SubSeq(out, cut + 1, Len(out)) = asked
       /\ Range(SubSeq(out, 1, cut)) = Range(UnansweredOf(in))
       /\ Len(UnansweredOf(in)) = 0 => out = in

\* of three records the answered one went to the end and the other two
\* changed places
C17_Witness ==
  /\ phase = "shuffled"
  /\ Ids(questions) = << 2, 1, 3 >>
  /\ answeredQuestions = {2}
  /\ Ids(filteredQuestions) = << 3, 1, 2 >>

\* the five filter selects are at "All"
AllDimensionsAll ==
  /\ filters.category = "All"
  /\ filters.subCategory = "All"
  /\ filters.bookmarked = "All"
  /\ filters.questionWithAsterisk = "All"
  /\ filters.civicsTestUpdates = "All"

\* C18: once the page has loaded and whenever filters.shuffleUnasked is
\* false, the records of filteredQuestions are records of questions in the
\* order they have in questions; with the five filters at "All",
\* filteredQuestions equals questions.
C18_OrderKept ==
  (phase = "ready" /\ ~filters.shuffleUnasked) =>
    /\ \A k \in 1..Len(filteredQuestions) :
         FindIndex(questions, filteredQuestions[k].id) >= 0
    /\ \A j, k \in 1..Len(filteredQuestions) :
         j < k => FindIndex(questions, filteredQuestions[j].id)
                    < FindIndex(questions, filteredQuestions[k].id)
    /\ AllDimensionsAll => filteredQuestions = questions

\* C19: with shuffle on, the answer shown and historyForward empty,
\* nextQuestion moves to an index whose question is not answered whenever the
\* view holds such a question, and to (currentIndex + 1) mod length when every
\* question of the view is answered (index 0 again on a view of one); either
\* way the old index is pushed on historyBack, historyForward is empty and
\* the answer is hidden.
C19_ShuffleAdvance ==
  [][ (filters.shuffleUnasked /\ showAnswerFlag /\ historyForward = << >>
         /\ NextQuestion) =>
        /\ Len(UnansweredOf(filteredQuestions)) > 0 =>
             /\ Defined(filteredQuestions, currentIndex')
             /\ filteredQuestions[currentIndex' + 1].id \notin answeredQuestions
        /\ Len(UnansweredOf(filteredQuestions)) = 0 =>
             /\ currentIndex' = (currentIndex + 1) % Len(filteredQuestions)
             /\ Len(filteredQuestions) = 1 => currentIndex' = 0
        /\ historyBack' = Append(historyBack, currentIndex)
        /\ historyForward' = << >>
        /\ ~showAnswerFlag'
        /\ UNCHANGED << filteredQuestions, answeredQuestions >> ]_vars

\* with shuffle on, the first question of three was answered and the move
\* went past the second to the third
C19_Witness ==
  /\ filters.shuffleUnasked
  /\ Len(filteredQuestions) = 3
  /\ historyBack = << 0, 0 >>
  /\ historyForward = << >>
  /\ currentIndex = 2
  /\ ~showAnswerFlag
  /\ answeredQuestions = {filteredQuestions[1].id}

\* with shuffle on, every question of the view is answered and the move
\* was the sequential one
C19_WitnessAllAnswered ==
  /\ filters.shuffleUnasked
  /\ Len(filteredQuestions) = 2
  /\ IdSet(filteredQuestions) \subseteq answeredQuestions
  /\ Len(historyBack) = 3
  /\ ~showAnswerFlag

\* C20: with the answer shown and historyForward non-empty, nextQuestion
\* pops the top index t of historyForward, pushes the old currentIndex on
\* historyBack, sets currentIndex to t, hides the answer, leaves the other
\* entries of historyForward in place and changes neither answeredQuestions
\* nor the view.
C20_Replay ==
  (phase = "ready" /\ showAnswerFlag /\ Len(historyForward) > 0) =>
    \A n \in nextQuestion(St) :
      /\ n.currentIndex = Last(historyForward)
      /\ n.historyBack = Append(historyBack, currentIndex)
      /\ n.historyForward = Front(historyForward)
      /\ ~n.showAnswerFlag
      /\ n.answeredQuestions = answeredQuestions
      /\ n.filteredQuestions = filteredQuestions

\* the step before was a replay from index 0 to index 1
C20_Witness ==
  /\ lastStep = "replay"
  /\ currentIndex = 1
  /\ historyBack = << 0, 0 >>
  /\ historyForward = << >>
  /\ ~showAnswerFlag

\* a replay is due with two indices on historyForward
C20_WitnessDeep ==
  /\ showAnswerFlag
  /\ Len(historyForward) = 2

\* C21: prevQuestion called with historyBack empty changes nothing:
\* currentIndex, showAnswerFlag, both history stacks, answeredQuestions and
\* the view are as before; a shown answer stays shown.
C21_BackNoop ==
  [][ (PrevQuestion /\ Len(historyBack) = 0) =>
        UNCHANGED << currentIndex, showAnswerFlag, historyBack, historyForward,
                     answeredQuestions, filteredQuestions >> ]_vars

\* prevQuestion found historyBack empty while an answer was shown
C21_Witness ==
  /\ lastStep = "backNoop"
  /\ showAnswerFlag
  /\ historyBack = << >>
  /\ Len(historyForward) > 0

\* the listener of this step computes the view anew
ReplacesView ==
  \/ DomContentLoaded
  \/ FetchResolved
  \/ FilterChange
  \/ ShuffleClick
  \/ ResetFilters
  \/ ResetBookmarks
  \/ ToggleBookmark /\ Defined(filteredQuestions, currentIndex)
  \/ BookmarkImport /\ lastStep' = "importMerged"

\* C22: whenever the view is replaced (load, filter change, shuffle toggle,
\* resetFilters, resetBookmarks, bookmark toggle or import) the answer is
\* hidden, historyForward is empty, and historyBack is [currentIndex] when
\* the new view is non-empty and empty when the new view is empty.
C22_Reinitialized ==
  [][ ReplacesView =>
        /\ ~showAnswerFlag'
        /\ historyForward' = << >>
        /\ historyBack' = IF Len(filteredQuestions') > 0
                            THEN << currentIndex' >> ELSE << >> ]_vars

\* a data-set load completes in this step: the initial one, or the listener
\* of a sheet change runs on after its fetch
LoadCompletes == DomContentLoaded \/ FetchResolved

\* C23: after every completed load (the initial load and every sheet change,
\* handleSheetChange included) answeredQuestions is empty, the five filter
\* dimensions are "All", the view holds exactly the records of the new list,
\* currentIndex = 0, the answer is hidden, historyBack = [0] and
\* historyForward = []: nothing of the previous data set survives.
C23_LoadResets ==
  [][ LoadCompletes =>
        /\ answeredQuestions' = {}
        /\ \A d \in FilterTargets : filters'[d] = "All"
        /\ Range(filteredQuestions') = Range(questions')
        /\ Len(filteredQuestions') = Len(questions')
        /\ currentIndex' = 0
        /\ ~showAnswerFlag'
        /\ historyBack' = << 0 >>
        /\ historyForward' = << >> ]_vars

\* the states the selector listener can end in when the user selects `name`
\* in state s and the fetch of that tab resolves
SelectAndLoad(s, name) ==
  UNION { sheetSelectorLoaded([s EXCEPT !.sheetName = name],
                              loadQuestionsFromSelectedSheet(name, fetchOk)) :
            fetchOk \in BOOLEAN }

\* C24: bookmarks persist across loads of the same data set.  The ids
\* localStorage holds when the page is loaded, saved by the earlier session
\* of the same data set, are bookmarks after the load; and an id bookmarked
\* and saved while a set is active is a bookmark again after the user selected
\* another set and then this one again.
C24_BookmarksPersist ==
  /\ [][ DomContentLoaded => storage \subseteq bookmarkedQuestions' ]_vars
  /\ [](phase = "ready" /\ sheetSelected # "" /\ pending = << >> =>
          \A other \in sheetOptions \ {sheetSelected} :
            \A away \in SelectAndLoad(St, other) :
              \A back \in SelectAndLoad(away, sheetName) :
                (bookmarkedQuestions \cap storage) \subseteq back.bookmarkedQuestions)

\* C25: when the user selects data set A and then data set B while the fetch
\* for A is pending, then once both fetches have resolved, in either order,
\* the committed state is that of B: CONFIG.SHEET_NAME is B, the selection
\* made last, and `questions` is what the load of B resolved to; the result
\* of A never replaces it.
C25_LastSelectionWins ==
  [][ (FetchResolved /\ pending' = << >>) =>
        /\ sheetName' = sheetSelected'
        /\ questions' \in { loadQuestionsFromSelectedSheet(sheetSelected', fetchOk) :
                               fetchOk \in BOOLEAN } ]_vars

\* C26: after every completed load, the initial one and every sheet change,
\* whatever the loader came back with (fetch error, non-OK response, a tab
\* without question rows, no sheet selected), `questions` is non-empty and,
\* the five filters being "All", so is the view: the built-in list stands
\* in for an empty result.
C26_NeverEmptyAfterLoad ==
  [][ LoadCompletes =>
        /\ Len(questions') > 0
        /\ (\A d \in FilterTargets : filters'[d] = "All") =>
             Len(filteredQuestions') > 0 ]_vars

\* C27: resetProgress empties answeredQuestions and leaves the bookmarks, the
\* persisted bookmarks, every filter dimension (shuffleUnasked included) and
\* the set of records of the view as they were; afterwards currentIndex = 0,
\* the answer is hidden, historyBack = [0] and historyForward = [].
C27_ResetProgressFrame ==
  [][ ResetProgress =>
        /\ answeredQuestions' = {}
        /\ UNCHANGED << bookmarkedQuestions, storage, filters >>
        /\ Range(filteredQuestions') = Range(filteredQuestions)
        /\ Len(filteredQuestions') = Len(filteredQuestions)
        /\ currentIndex' = 0
        /\ ~showAnswerFlag'
        /\ historyBack' = << 0 >>
        /\ historyForward' = << >> ]_vars

\* progress was reset with shuffle on, a bookmark set and a filter active
C27_Witness ==
  /\ lastStep = "resetProgress"
  /\ answeredQuestions = {}
  /\ filters.shuffleUnasked
  /\ filters.questionWithAsterisk = "Yes"
  /\ bookmarkedQuestions # {}
  /\ storage = bookmarkedQuestions
  /\ Len(filteredQuestions) = 2
  /\ currentIndex = 0
  /\ historyBack = << 0 >>

\* C28: resetBookmarks empties bookmarkedQuestions and the persisted list and
\* leaves answeredQuestions and every filter dimension as they were;
\* afterwards the view is the filter result for the empty bookmark set, which
\* is empty when the bookmark filter is "Bookmarked".
C28_ResetBookmarksFrame ==
  [][ ResetBookmarks =>
        /\ bookmarkedQuestions' = {}
        /\ storage' = {}
        /\ UNCHANGED << answeredQuestions, filters >>
        /\ Range(filteredQuestions') = Matching'
        /\ Len(filteredQuestions') = Cardinality(Matching')
        /\ filters.bookmarked = "Bookmarked" => filteredQuestions' = << >> ]_vars

\* the bookmarks were reset while the bookmark filter showed a bookmarked,
\* answered question
C28_Witness ==
  /\ lastStep = "resetBookmarks"
  /\ filters.bookmarked = "Bookmarked"
  /\ filteredQuestions = << >>
  /\ Len(questions) = 3
  /\ answeredQuestions # {}
  /\ bookmarkedQuestions = {}
  /\ storage = {}

\* C29: resetFilters sets the category, subCategory, bookmark, asterisk and
\* update filters to "All" and leaves shuffleUnasked, answeredQuestions and
\* the bookmarks as they were; afterwards the view holds every loaded
\* question, currentIndex is an index of the view, the answer is hidden,
\* historyBack = [currentIndex] and historyForward = [].
C29_ResetFiltersFrame ==
  [][ ResetFilters =>
        /\ \A d \in FilterTargets : filters'[d] = "All"
        /\ filters'.shuffleUnasked = filters.shuffleUnasked
        /\ UNCHANGED << answeredQuestions, bookmarkedQuestions >>
        /\ Range(filteredQuestions') = Range(questions)
        /\ Len(filteredQuestions') = Len(questions)
        /\ Defined(filteredQuestions', currentIndex')
        /\ ~showAnswerFlag'
        /\ historyBack' = << currentIndex' >>
        /\ historyForward' = << >> ]_vars

\* C30: in every reachable state a shown answer implies that the view is
\* non-empty and that the id of the current question,
\* filteredQuestions[currentIndex], is in answeredQuestions; so nextQuestion
\* never computes (currentIndex + 1) % 0, and currentIndex is never NaN or -1.
C30_ShownIsAnswered ==
  /\ currentIndex >= 0
  /\ showAnswerFlag =>
       /\ Len(filteredQuestions) > 0
       /\ Defined(filteredQuestions, currentIndex)
       /\ filteredQuestions[currentIndex + 1].id \in answeredQuestions
       /\ \A n \in nextQuestion(St) : n.currentIndex >= 0

\* with shuffle on, the answer of the second question drawn is shown
C30_Witness ==
  /\ showAnswerFlag
  /\ filters.shuffleUnasked
  /\ Len(filteredQuestions) = 3
  /\ Len(historyBack) = 2
  /\ Cardinality(answeredQuestions) = 2
  /\ currentIndex > 0

\* C31: in every reachable state with a non-empty view, every index kept in
\* historyBack and in historyForward is an index of the present view
\* (0 <= i < length): no listener changes the view and leaves entries of the
\* previous view in a stack.
C31_HistoryInRange ==
  /\ [](Len(filteredQuestions) > 0 =>
          /\ \A k \in 1..Len(historyBack) : Defined(filteredQuestions, historyBack[k])
          /\ \A k \in 1..Len(historyForward) : Defined(filteredQuestions, historyForward[k]))
  /\ [][ filteredQuestions' # filteredQuestions =>
           /\ historyBack' = << currentIndex' >>
           /\ historyForward' = << >> ]_vars

\* both stacks hold an index of a view that a filter narrowed to two of the
\* three questions
C31_Witness ==
  /\ Len(questions) = 3
  /\ Len(filteredQuestions) = 2
  /\ historyBack = << 0 >>
  /\ historyForward = << 1 >>
  /\ currentIndex = 0

\* C32: with shuffle off and a view of at least two questions, every
\* nextQuestion call made while the answer is shown changes currentIndex,
\* in every reachable state, those reached by a prevQuestion at the very
\* start of a session included.
C32_NextMoves ==
  [][ (NextQuestion /\ ~filters.shuffleUnasked /\ Len(filteredQuestions) >= 2
         /\ showAnswerFlag) =>
        currentIndex' # currentIndex ]_vars

\* the listener of this step, run after the page has loaded, writes the
\* progress bar and the statistics anew
DisplaysProgress ==
  \/ UpdatesProgress
  \/ ResetProgress
  \/ ReplacesView /\ phase = "ready"

\* C33: the progress on display always satisfies 0 <= answered <= total,
\* 0 <= percent <= 100 and remaining = total - answered >= 0, also after the
\* user answered questions and then narrowed the filter or toggled bookmarks.
C33_ProgressBounds ==
  [][ DisplaysProgress =>
        LET shown == updateProgress(St')
        IN /\ 0 <= shown.answered
           /\ shown.answered <= shown.total
           /\ 0 <= shown.percent
           /\ shown.percent <= 100
           /\ shown.total - shown.answered >= 0 ]_vars

\* C34: two toggleBookmark calls in a row leave bookmarkedQuestions and the
\* persisted bookmarks as they were before the first, under every filter
\* configuration, also when the bookmark filter is "Bookmarked" and the
\* first call takes the current question out of the view.
C34_ToggleTwice ==
  [][ ToggleBookmark =>
        \A second \in toggleBookmark(St') :
          /\ second.bookmarkedQuestions = bookmarkedQuestions
          /\ second.storage = storage ]_vars

\* the number of indices the two stacks of s hold
Entries(s) == Len(s.historyBack) + Len(s.historyForward)

BookmarkOrFilterStep ==
  ToggleBookmark \/ BookmarkImport \/ ResetBookmarks \/ FilterChange \/ ShuffleClick

\* C36: toggleBookmark, a bookmark import, resetBookmarks, filter changes
\* and the shuffle toggle never change answeredQuestions; the
\* validateCurrentQuestion call of toggleBookmark never moves on, since after
\* applyFilters the current question passes the filters.  answeredQuestions
\* grows only by the id a reveal adds and shrinks only in resetProgress,
\* called directly or by a load.  (A toggleBookmark that finds a current
\* question changes bookmarkedQuestions; one that finds none returns at once.)
C36_AnsweredFrame ==
  /\ [][ (bookmarkedQuestions' # bookmarkedQuestions
            /\ (showAnswerFlag' \/ validateCurrentQuestion(St') # {St'})) =>
           ~ToggleBookmark ]_vars
  /\ [][ answeredQuestions' # answeredQuestions =>
           /\ ~BookmarkOrFilterStep
           /\ \/ /\ NextQuestion \/ ToggleAnswer
                 /\ ~showAnswerFlag /\ showAnswerFlag'
                 /\ answeredQuestions' =
                      answeredQuestions \cup {filteredQuestions[currentIndex + 1].id}
              \/ /\ ResetProgress \/ LoadCompletes
                 /\ answeredQuestions' = {} ]_vars

\* under the bookmark filter a toggle took the current, answered question
\* out of the view and another bookmarked question is current
C36_Witness ==
  /\ lastStep = "toggleBookmark"
  /\ filters.bookmarked = "Bookmarked"
  /\ Len(filteredQuestions) = 1
  /\ answeredQuestions # {}
  /\ bookmarkedQuestions \cap answeredQuestions = {}
  /\ ~showAnswerFlag

\* C37: once speech is cancelled, no further chunk of a cancelled text is handed
\* to the speech engine, whatever event the engine fires afterwards for the
\* utterance that was in progress; and isSpeaking is true exactly while a chunk
\* sequence started by speakText is in progress (the engine has an utterance
\* of it to speak).
C37_CancelStops ==
  /\ [][ Len(handed') > Len(handed) => ~sequences'[Last(handed').seq].cancelled ]_vars
  /\ [](isSpeaking <=> Len(utterances) > 0)

\* the chunks of speakText call k handed to the engine so far, in order
HandedOf(k) == SelectSeq(handed, LAMBDA h : h.seq = k)

\* a step of one of the navigation listeners
Navigates == NextQuestion \/ PrevQuestion \/ FilterChange

\* C38: when nothing is cancelled and every utterance fires end or error, the
\* chunks of a text are handed to the engine one at a time, in order and each
\* once, and isSpeaking becomes false again, with the whole text spoken unless
\* an utterance failed; after an error no later chunk of the text is spoken.
\* nextQuestion, prevQuestion and filter changes leave isSpeaking alone and
\* stay possible while it is true.
C38_SpeaksInOrder ==
  /\ [](/\ Len(utterances) <= 1
        /\ \A k \in 1..Len(sequences) :
             LET seq == sequences[k]
                 done == HandedOf(k)
             IN /\ Len(done) <= Len(seq.chunks)
                /\ \A j \in 1..Len(done) : done[j].chunk = seq.chunks[j]
                /\ (~isSpeaking /\ ~seq.failed) => Len(done) = Len(seq.chunks)
                /\ ~isSpeaking => utterances = << >>)
  /\ (isSpeaking ~> ~isSpeaking)
  /\ [][ Len(handed') > Len(handed) => ~sequences'[Last(handed').seq].failed ]_vars
  /\ [][ Navigates => isSpeaking' = isSpeaking ]_vars
  /\ []((isSpeaking /\ events < MaxEvents) =>
          ENABLED NextQuestion /\ ENABLED PrevQuestion /\ ENABLED FilterChange)

C38_Witness ==
  /\ Len(sequences) = 1
  /\ Len(sequences[1].chunks) = 3
  /\ Len(HandedOf(1)) = 3
  /\ ~sequences[1].failed
  /\ ~isSpeaking
  /\ currentIndex = 1
  /\ events = MaxEvents

====
